---- MODULE Spec2Model ----
(***************************************************************************)
(* Model of the penalty functions of lessOptimizers:                       *)
(*   penaltyMcpGlmnet   (include/lesspar/glmnet_mcp.h)                     *)
(*   penaltyRidge       (include/ista_ridge.h)                             *)
(*   penaltyRidgeGlmnet (include/lesstimate/glmnet_ridge.h)                *)
(*   stringPenaltyToPenaltyType (include/simplified_interfaces_helper.h)   *)
(*                                                                         *)
(* A C++ double is modelled as a pair <<n, d>>:                            *)
(*   d > 0 : the rational n/d in lowest terms (arithmetic is exact, the    *)
(*           rounding and the overflow of binary64 are not modelled),      *)
(*   d = 0 : a non-finite value, <<1,0>> = +inf, <<-1,0>> = -inf,          *)
(*           <<0,0>> = NaN, with the IEEE-754 rules for them.              *)
(* A zero is always +0.                                                    *)
(***************************************************************************)
EXTENDS Integers, Sequences, FiniteSets, TLC

VARIABLES pc, args, ret

vars == <<pc, args, ret>>

(***************************************************************************)
(* double arithmetic                                                       *)
(***************************************************************************)
IAbs(i) == IF i < 0 THEN -i ELSE i

Sgn(i) == IF i < 0 THEN -1 ELSE IF i > 0 THEN 1 ELSE 0

RECURSIVE Gcd(_, _)
Gcd(a, b) == IF b = 0 THEN a ELSE Gcd(b, a % b)

\* the rational n/d (d # 0) in lowest terms with a positive denominator
Norm(n, d) ==
  LET g == Gcd(IAbs(n), IAbs(d))
  IN  IF d < 0 THEN <<(-n) \div g, (-d) \div g>> ELSE <<n \div g, d \div g>>

R(n, d) == Norm(n, d)

I(n) == <<n, 1>>

Zero == <<0, 1>>

One == <<1, 1>>

Two == <<2, 1>>

Half == <<1, 2>>

NaN == <<0, 0>>

PInf == <<1, 0>>

NInf == <<-1, 0>>

Inf(s) == <<s, 0>>

IsNaN(a) == a = NaN

IsInf(a) == a[2] = 0 /\ a[1] # 0

\* arma::is_finite
IsFinite(a) == a[2] # 0

Neg(a) == <<-a[1], a[2]>>

\* std::abs
Abs(a) == <<IAbs(a[1]), a[2]>>

Add(a, b) ==
  IF IsNaN(a) \/ IsNaN(b) THEN NaN
  ELSE IF IsInf(a) THEN (IF IsInf(b) /\ b # a THEN NaN ELSE a)
  ELSE IF IsInf(b) THEN b
  ELSE LET g == Gcd(a[2], b[2])
           l == (a[2] \div g) * b[2]
       IN  Norm(a[1] * (l \div a[2]) + b[1] * (l \div b[2]), l)

Sub(a, b) == Add(a, Neg(b))

Mul(a, b) ==
  IF IsNaN(a) \/ IsNaN(b) THEN NaN
  ELSE IF IsInf(a) \/ IsInf(b)
       THEN (IF a[1] = 0 \/ b[1] = 0 THEN NaN ELSE Inf(Sgn(a[1]) * Sgn(b[1])))
  ELSE LET g1 == Gcd(IAbs(a[1]), b[2])
           g2 == Gcd(IAbs(b[1]), a[2])
       IN  Norm((a[1] \div g1) * (b[1] \div g2), (a[2] \div g2) * (b[2] \div g1))

Div(a, b) ==
  IF IsNaN(a) \/ IsNaN(b) THEN NaN
  ELSE IF IsInf(a) THEN (IF IsInf(b) THEN NaN
                         ELSE Inf(Sgn(a[1]) * (IF b[1] < 0 THEN -1 ELSE 1)))
  ELSE IF IsInf(b) THEN Zero
  ELSE IF b[1] = 0 THEN (IF a[1] = 0 THEN NaN ELSE Inf(Sgn(a[1])))
  ELSE Mul(a, IF b[1] < 0 THEN <<-b[2], -b[1]>> ELSE <<b[2], b[1]>>)

\* -1, 0, 1 as n1/d1 is below, equal to or above n2/d2 (d1, d2 > 0), by the
\* integer parts and then the reciprocals of the fractional parts, so that no
\* product is formed
RECURSIVE CmpFrac(_, _, _, _)
CmpFrac(n1, d1, n2, d2) ==
  LET q1 == n1 \div d1
      q2 == n2 \div d2
      r1 == n1 % d1
      r2 == n2 % d2
  IN  IF q1 # q2 THEN Sgn(q1 - q2)
      ELSE IF r1 = 0 \/ r2 = 0 THEN Sgn(r1 - r2)
      ELSE CmpFrac(d2, r2, d1, r1)

\* -1, 0, 1 as a < b, a = b, a > b; neither is NaN
Cmp(a, b) ==
  IF IsInf(a) \/ IsInf(b)
  THEN Sgn((IF IsInf(a) THEN a[1] ELSE 0) - (IF IsInf(b) THEN b[1] ELSE 0))
  ELSE CmpFrac(a[1], a[2], b[1], b[2])

\* the comparisons of doubles: all false when an operand is NaN
Lt(a, b) == ~IsNaN(a) /\ ~IsNaN(b) /\ Cmp(a, b) < 0

Le(a, b) == ~IsNaN(a) /\ ~IsNaN(b) /\ Cmp(a, b) <= 0

Gt(a, b) == Lt(b, a)

Ge(a, b) == Le(b, a)

Eq(a, b) == ~IsNaN(a) /\ ~IsNaN(b) /\ a = b

\* std::max(a, b) is (a < b) ? b : a, std::min(a, b) is (b < a) ? b : a
Max(a, b) == IF Lt(a, b) THEN b ELSE a

Min(a, b) == IF Lt(b, a) THEN b ELSE a

\* std::pow(x, 2)
Pow2(a) == Mul(a, a)

(***************************************************************************)
(* penaltyMcpGlmnet                                                        *)
(***************************************************************************)
\* mcpInner with the quadratic term added
mcpInnerPlus(lambda_i, absPar, theta) ==
  Add(Mul(lambda_i, absPar), Div(Pow2(absPar), Mul(Two, theta)))

\* glmnet_mcp.h:75, the value of one coordinate with absPar <= lambda_i * theta
mcpInner(lambda_i, absPar, theta) ==
  Sub(Mul(lambda_i, absPar), Div(Pow2(absPar), Mul(Two, theta)))

\* mcpOuter without the division by 2
mcpOuterNoHalf(lambda_i, theta) == Mul(theta, Pow2(lambda_i))

\* glmnet_mcp.h:80, the value of one coordinate with absPar > lambda_i * theta
mcpOuter(lambda_i, theta) == Div(Mul(theta, Pow2(lambda_i)), Two)

\* the body of the loop of getValue for parameter p (1-based): the penalty
\* after it, and whether error("Error while evaluating mcp") was raised
mcpGetValueStep(penalty, p, parameterValues, weights, lambda, theta) ==
  IF Eq(weights[p], Zero) THEN [penalty |-> penalty, error |-> FALSE]
  ELSE LET lambda_i == Mul(lambda, weights[p])
           absPar   == Abs(parameterValues[p])
       IN  IF Le(absPar, Mul(lambda_i, theta))
           THEN [penalty |-> Add(penalty, mcpInner(lambda_i, absPar, theta)),
                 error |-> FALSE]
           ELSE IF Gt(absPar, Mul(lambda_i, theta))
           THEN [penalty |-> Add(penalty, mcpOuter(lambda_i, theta)),
                 error |-> FALSE]
           ELSE [penalty |-> penalty, error |-> TRUE]

RECURSIVE mcpGetValueLoop(_, _, _, _, _, _)
mcpGetValueLoop(penalty, p, parameterValues, weights, lambda, theta) ==
  IF p > Len(parameterValues) THEN [status |-> "returned", value |-> penalty]
  ELSE LET s == mcpGetValueStep(penalty, p, parameterValues, weights, lambda, theta)
       IN  IF s.error
           THEN [status |-> "Error while evaluating mcp", value |-> NaN]
           ELSE mcpGetValueLoop(s.penalty, p + 1, parameterValues, weights,
                                lambda, theta)

\* penaltyMcpGlmnet::getValue
mcpGetValue(parameterValues, weights, lambda, theta) ==
  mcpGetValueLoop(Zero, 1, parameterValues, weights, lambda, theta)

\* penaltyMcpGlmnet::subproblemValue
subproblemValue(parameterValue_j, z, g_j, d_j, hessianXdirection_j, H_jj, lambda, theta) ==
  LET base  == Add(Add(Mul(z, g_j), Mul(z, hessianXdirection_j)),
                   Mul(Mul(Half, Mul(z, z)), H_jj))
      probe == Abs(Add(Add(parameterValue_j, d_j), z))
  IN  IF Le(probe, Mul(theta, lambda))
      THEN Sub(Add(base, Mul(lambda, probe)),
               Div(Mul(probe, probe), Mul(Two, theta)))
      ELSE Add(base, Div(Mul(Mul(theta, lambda), lambda), Two))

\* the sum of the entries of vec alone, without the entries of row
RECURSIVE rowTimesVecUnweighted(_, _, _)
rowTimesVecUnweighted(row, vec, k) ==
  IF k = 0 THEN Zero
  ELSE Add(rowTimesVecUnweighted(row, vec, k - 1), vec[k])

\* row whichPar of Hessian * trans(stepDirection)
RECURSIVE rowTimesVec(_, _, _)
rowTimesVec(row, vec, k) ==
  IF k = 0 THEN Zero
  ELSE Add(rowTimesVec(row, vec, k - 1), Mul(row[k], vec[k]))

\* glmnet_mcp.h:182, the constant .001 of the inflation of H_jj
pdEps == <<1, 1000>>

\* notPosDef with the sign of 1/theta slipped
notPosDefSignSlip(H_jj, theta) == Le(Add(H_jj, Div(One, theta)), Zero)

\* glmnet_mcp.h:178, the test that starts the fallback
notPosDef(H_jj, theta) == Le(Sub(H_jj, Div(One, theta)), Zero)

\* glmnet_mcp.h:182
inflate(H_jj, theta) == Add(H_jj, Add(Div(One, theta), pdEps))

\* candidate0 with the term theta * lambda of the root left out
candidate0NoLambda(parameterValue_j, d_j, g_j, hessianXdirection_j, H_jj, lambda, theta) ==
  LET z_1 == Max(Neg(Add(parameterValue_j, d_j)),
                 Div(Add(Sub(Add(Mul(Neg(hessianXdirection_j), theta), d_j),
                             Mul(g_j, theta)),
                         parameterValue_j),
                     Sub(Mul(H_jj, theta), One)))
  IN  IF Le(Add(Add(parameterValue_j, d_j), z_1), Mul(lambda, theta))
      THEN z_1
      ELSE Sub(Mul(lambda, theta), Add(parameterValue_j, d_j))

\* glmnet_mcp.h:205-216, the candidate of the region 0 <= x_j + d_j + z <= lambda*theta
candidate0(parameterValue_j, d_j, g_j, hessianXdirection_j, H_jj, lambda, theta) ==
  LET z_1 == Max(Neg(Add(parameterValue_j, d_j)),
                 Div(Add(Sub(Sub(Add(Mul(Neg(hessianXdirection_j), theta), d_j),
                                 Mul(g_j, theta)),
                             Mul(theta, lambda)),
                         parameterValue_j),
                     Sub(Mul(H_jj, theta), One)))
  IN  IF Le(Add(Add(parameterValue_j, d_j), z_1), Mul(lambda, theta))
      THEN z_1
      ELSE Sub(Mul(lambda, theta), Add(parameterValue_j, d_j))

\* glmnet_mcp.h:222-233, the candidate of the region -lambda*theta <= x_j + d_j + z <= 0
candidate1(parameterValue_j, d_j, g_j, hessianXdirection_j, H_jj, lambda, theta) ==
  LET z_2 == Min(Neg(Add(parameterValue_j, d_j)),
                 Div(Add(Add(Sub(Add(Mul(Neg(hessianXdirection_j), theta), d_j),
                                 Mul(g_j, theta)),
                             Mul(theta, lambda)),
                         parameterValue_j),
                     Sub(Mul(H_jj, theta), One)))
  IN  IF Ge(Add(Add(parameterValue_j, d_j), z_2), Mul(Neg(lambda), theta))
      THEN z_2
      ELSE Sub(Mul(Neg(lambda), theta), Add(parameterValue_j, d_j))

\* candidate2 with z_3 computed without the product of the Hessian and the
\* step direction
candidate2NoDirection(parameterValue_j, d_j, g_j, hessianXdirection_j, H_jj, lambda, theta) ==
  LET z_3 == Div(Neg(g_j), H_jj)
      at  == Add(Add(parameterValue_j, d_j), z_3)
  IN  IF Lt(at, Zero)
      THEN IF Le(at, Mul(Neg(lambda), theta))
           THEN z_3
           ELSE Sub(Mul(Neg(lambda), theta), Add(parameterValue_j, d_j))
      ELSE IF Ge(at, Mul(lambda, theta))
           THEN z_3
           ELSE Sub(Mul(lambda, theta), Add(parameterValue_j, d_j))

\* glmnet_mcp.h:241-273, the candidate of the region |x_j + d_j + z| >= lambda*theta
candidate2(parameterValue_j, d_j, g_j, hessianXdirection_j, H_jj, lambda, theta) ==
  LET z_3 == Div(Neg(Add(g_j, hessianXdirection_j)), H_jj)
      at  == Add(Add(parameterValue_j, d_j), z_3)
  IN  IF Lt(at, Zero)
      THEN IF Le(at, Mul(Neg(lambda), theta))
           THEN z_3
           ELSE Sub(Mul(Neg(lambda), theta), Add(parameterValue_j, d_j))
      ELSE IF Ge(at, Mul(lambda, theta))
           THEN z_3
           ELSE Sub(Mul(lambda, theta), Add(parameterValue_j, d_j))

\* whichminStep without the test of arma::is_finite
whichminStepNoFiniteTest(whichmin, i, z, fitValue) ==
  IF whichmin = -1 THEN i
  ELSE IF Lt(fitValue[i + 1], fitValue[whichmin + 1]) THEN i
  ELSE whichmin

\* glmnet_mcp.h:277-302, one pass of the loop over the candidates: whichmin
\* after candidate i (0-based; z and fitValue are 1-based sequences here)
whichminStep(whichmin, i, z, fitValue) ==
  IF ~IsFinite(z[i + 1]) THEN whichmin
  ELSE IF whichmin = -1 THEN i
  ELSE IF Lt(fitValue[i + 1], fitValue[whichmin + 1]) THEN i
  ELSE whichmin

\* glmnet_mcp.h:276-302
selectMin(z, fitValue) ==
  whichminStep(whichminStep(whichminStep(-1, 0, z, fitValue), 1, z, fitValue),
               2, z, fitValue)

\* the result of a call that threw: no value is returned
NoValue == <<>>

\* penaltyMcpGlmnet::getZ (whichPar is 1-based). The result records what the
\* call did: status, the returned z, whether warn() was called, the H_jj used
\* for the candidates, the candidates z[0..2] and whichmin.
getZ(whichPar, parameters_kMinus1, gradient, stepDirection, Hessian, weights, lambdaT, theta) ==
  LET lambda == Mul(weights[whichPar], lambdaT)
      parameterValue_j == parameters_kMinus1[whichPar]
      d_j == stepDirection[whichPar]
      hessianXdirection_j ==
        rowTimesVec(Hessian[whichPar], stepDirection, Len(stepDirection))
      H_in == Hessian[whichPar][whichPar]
      g_j == gradient[whichPar]
  IN  IF Eq(weights[whichPar], Zero)
      THEN [status |-> "returned",
            z |-> Div(Neg(Add(g_j, hessianXdirection_j)), H_in),
            warned |-> FALSE, H_jj |-> H_in, cand |-> <<>>, whichmin |-> -1]
      ELSE
      LET warned == notPosDef(H_in, theta)
          H_jj == IF warned THEN inflate(H_in, theta) ELSE H_in
          z == << candidate0(parameterValue_j, d_j, g_j, hessianXdirection_j,
                             H_jj, lambda, theta),
                  candidate1(parameterValue_j, d_j, g_j, hessianXdirection_j,
                             H_jj, lambda, theta),
                  candidate2(parameterValue_j, d_j, g_j, hessianXdirection_j,
                             H_jj, lambda, theta) >>
          fitValue == [i \in 1..3 |->
                         IF IsFinite(z[i])
                         THEN subproblemValue(parameterValue_j, z[i], g_j, d_j,
                                              hessianXdirection_j, H_jj,
                                              lambda, theta)
                         ELSE NaN]
          whichmin == selectMin(z, fitValue)
      IN  IF whichmin = -1
          THEN [status |-> "Found no minimum", z |-> NoValue,
                warned |-> warned, H_jj |-> H_jj, cand |-> z,
                whichmin |-> whichmin]
          ELSE [status |-> "returned", z |-> z[whichmin + 1],
                warned |-> warned, H_jj |-> H_jj, cand |-> z,
                whichmin |-> whichmin]

(***************************************************************************)
(* penaltyRidge (ista) and penaltyRidgeGlmnet                              *)
(***************************************************************************)
\* lambda_i of penaltyRidge with the weight left out
ridgeLambdaNoWeight(alpha, lambda, weight) == Mul(Sub(One, alpha), lambda)

\* ista_ridge.h:27-29 and 53-55, lambda_i of parameter p
ridgeLambda(alpha, lambda, weight) == Mul(Mul(Sub(One, alpha), lambda), weight)

\* ista_ridge.h:25-32, the loop of getValue from parameter p (1-based) on
RECURSIVE ridgeValueLoop(_, _, _, _, _, _)
ridgeValueLoop(penalty, p, parameterValues, weights, lambda, alpha) ==
  IF p > Len(parameterValues) THEN penalty
  ELSE ridgeValueLoop(
         Add(penalty, Mul(ridgeLambda(alpha, lambda, weights[p]),
                          Pow2(parameterValues[p]))),
         p + 1, parameterValues, weights, lambda, alpha)

\* penaltyRidge::getValue
ridgeGetValue(parameterValues, weights, lambda, alpha) ==
  IF Eq(alpha, One) THEN [status |-> "returned", value |-> Zero]
  ELSE [status |-> "returned",
        value |-> ridgeValueLoop(Zero, 1, parameterValues, weights, lambda, alpha)]

\* ista_ridge.h:57-59 with the factor 2 left out
ridgeGradientEntryNoFactor(lambda_i, parameterValue) == Mul(lambda_i, parameterValue)

\* ista_ridge.h:57-59, the entry of the gradient written in the loop
ridgeGradientEntry(lambda_i, parameterValue) ==
  Mul(Mul(lambda_i, Two), parameterValue)

\* penaltyRidge::getGradients
ridgeGetGradients(parameterValues, weights, lambda, alpha) ==
  IF Eq(alpha, One)
  THEN [status |-> "returned",
        gradients |-> [p \in 1..Len(parameterValues) |-> Zero]]
  ELSE [status |-> "returned",
        gradients |-> [p \in 1..Len(parameterValues) |->
                         ridgeGradientEntry(
                           ridgeLambda(alpha, lambda, weights[p]),
                           parameterValues[p])]]

\* arma::sum
RECURSIVE armaSum(_, _)
armaSum(vec, k) == IF k = 0 THEN Zero ELSE Add(armaSum(vec, k - 1), vec[k])

\* the "ridge is not used" test looking at the first alpha only
ridgeNotUsedFirstOnly(alpha) == Eq(alpha[1], One)

\* glmnet_ridge.h:40 and 76, the "ridge is not used" test
ridgeNotUsed(alpha) == Eq(armaSum(alpha, Len(alpha)), I(Len(alpha)))

\* glmnet_ridge.h:50-52 and 86-88, lambda_i of parameter p
ridgeGlmnetLambda(alpha_p, lambda_p, weight) ==
  Mul(Mul(Sub(One, alpha_p), lambda_p), weight)

\* glmnet_ridge.h:47-55, the loop of getValue from parameter p (1-based) on
RECURSIVE ridgeGlmnetValueLoop(_, _, _, _, _, _)
ridgeGlmnetValueLoop(penalty, p, parameterValues, weights, lambda, alpha) ==
  IF p > Len(parameterValues) THEN penalty
  ELSE ridgeGlmnetValueLoop(
         Add(penalty, Mul(ridgeGlmnetLambda(alpha[p], lambda[p], weights[p]),
                          Pow2(parameterValues[p]))),
         p + 1, parameterValues, weights, lambda, alpha)

\* penaltyRidgeGlmnet::getValue
ridgeGlmnetGetValue(parameterValues, weights, lambda, alpha) ==
  IF ridgeNotUsed(alpha) THEN [status |-> "returned", value |-> Zero]
  ELSE [status |-> "returned",
        value |-> ridgeGlmnetValueLoop(Zero, 1, parameterValues, weights,
                                       lambda, alpha)]

\* penaltyRidgeGlmnet::getGradients
ridgeGlmnetGetGradients(parameterValues, weights, lambda, alpha) ==
  IF ridgeNotUsed(alpha)
  THEN [status |-> "returned",
        gradients |-> [p \in 1..Len(parameterValues) |-> Zero]]
  ELSE [status |-> "returned",
        gradients |-> [p \in 1..Len(parameterValues) |->
                         Mul(Mul(ridgeGlmnetLambda(alpha[p], lambda[p], weights[p]),
                                 Two),
                             parameterValues[p])]]


(***************************************************************************)
(* stringPenaltyToPenaltyType                                              *)
(***************************************************************************)
\* the translation of one string with "mcp" taken for scad
penaltyTypeOfMcpAsScad(str) ==
  IF str = "none" THEN "penaltyType::none"
  ELSE IF str = "cappedL1" THEN "penaltyType::cappedL1"
  ELSE IF str = "lasso" THEN "penaltyType::lasso"
  ELSE IF str = "lsp" THEN "penaltyType::lsp"
  ELSE IF str = "mcp" THEN "penaltyType::scad"
  ELSE IF str = "scad" THEN "penaltyType::scad"
  ELSE "Rcpp::stop"

\* simplified_interfaces_helper.h:75-92, the chain of comparisons for one
\* string: the penaltyType assigned, or "Rcpp::stop" when the last else is taken
penaltyTypeOf(str) ==
  IF str = "none" THEN "penaltyType::none"
  ELSE IF str = "cappedL1" THEN "penaltyType::cappedL1"
  ELSE IF str = "lasso" THEN "penaltyType::lasso"
  ELSE IF str = "lsp" THEN "penaltyType::lsp"
  ELSE IF str = "mcp" THEN "penaltyType::mcp"
  ELSE IF str = "scad" THEN "penaltyType::scad"
  ELSE "Rcpp::stop"

\* simplified_interfaces_helper.h:73-93, the loop from element i (1-based) on,
\* penalties holding the elements assigned so far
RECURSIVE stringPenaltyLoop(_, _, _)
stringPenaltyLoop(penalty, i, penalties) ==
  IF i > Len(penalty) THEN [status |-> "returned", penalties |-> penalties]
  ELSE IF penaltyTypeOf(penalty[i]) = "Rcpp::stop"
       THEN [status |-> "Unknown penalty type", unknown |-> penalty[i]]
       ELSE stringPenaltyLoop(penalty, i + 1,
                              Append(penalties, penaltyTypeOf(penalty[i])))

\* stringPenaltyToPenaltyType
stringPenaltyToPenaltyType(penalty) == stringPenaltyLoop(penalty, 1, <<>>)


(***************************************************************************)
(* resizeVector                                                            *)
(***************************************************************************)
\* std::vector::resize and arma::rowvec::resize followed by the fill with
\* userObj: numberParameters elements, all of them userObj
resizeAndFill(numberParameters, userObj) == [k \in 1..numberParameters |-> userObj]

\* simplified_interfaces_helper.h:27-35, resizeVector for std::vector<vecobj>
resizeVectorStd(numberParameters, userVector) ==
  IF Len(userVector) = 1
  THEN resizeAndFill(numberParameters, userVector[1])
  ELSE userVector

\* simplified_interfaces_helper.h:37-45, resizeVector for arma::rowvec
resizeVectorArma(numberParameters, userVector) ==
  IF Len(userVector) = 1
  THEN resizeAndFill(numberParameters, userVector[1])
  ELSE userVector


(***************************************************************************)
(* The calls.  The penalties are stateless: a caller (pc = "idle") calls   *)
(* one function with some arguments, the state then holds the arguments    *)
(* and what the call did, and the function returns to the caller.          *)
(***************************************************************************)
\* number of parameters of the model that is fitted
NPar == 2

\* the vector of length NPar with v at position j and o everywhere else
vecAt(j, v, o) == [k \in 1..NPar |-> IF k = j THEN v ELSE o]

\* the Hessian approximation with h in row j, column j, off in the rest of
\* row j and of column j, and the identity elsewhere
matAt(j, h, off) ==
  [r \in 1..NPar |->
     [c \in 1..NPar |->
        IF r = j /\ c = j THEN h
        ELSE IF r = j \/ c = j THEN off
        ELSE IF r = c THEN One ELSE Zero]]

\* the values the arguments of getZ are drawn from
ZParameterValues == {I(-2), Zero, One, NaN}

ZDirections == {Zero, R(1, 2)}

ZGradients == {I(-2), R(-1, 2), One, I(3)}

ZHessianDiag == {R(-1001, 1000), R(-501, 1000), R(-1, 1000), Zero, R(249, 1000), One, Two}

ZOthers == {Zero, One}

Weights == {Zero, One, Two}

Lambdas == {Zero, One}

Thetas == {Two, I(4)}

Init ==
  /\ pc = "idle"
  /\ args = [fn |-> "none"]
  /\ ret = [status |-> "none"]

\* a call of penaltyMcpGlmnet::getZ for parameter j
CallGetZ ==
  /\ pc = "idle"
  /\ \E j \in 1..NPar, x \in ZParameterValues, d \in ZDirections,
        g \in ZGradients, h \in ZHessianDiag, o \in ZOthers,
        w \in Weights, l \in Lambdas, t \in Thetas :
       LET a == [fn |-> "getZ", whichPar |-> j,
                 parameters_kMinus1 |-> vecAt(j, x, One),
                 gradient |-> vecAt(j, g, One),
                 stepDirection |-> vecAt(j, d, o),
                 Hessian |-> matAt(j, h, Mul(o, Half)),
                 weights |-> vecAt(j, w, One),
                 lambda |-> l, theta |-> t]
       IN  /\ args' = a
           /\ ret' = getZ(a.whichPar, a.parameters_kMinus1, a.gradient,
                          a.stepDirection, a.Hessian, a.weights, a.lambda,
                          a.theta)
  /\ pc' = "getZ"

\* the call returns (or its exception has been handled) and the caller goes on
Return ==
  /\ pc # "idle"
  /\ pc' = "idle"
  /\ args' = [fn |-> "none"]
  /\ ret' = [status |-> "none"]

\* the values the arguments of the getValue of mcp are drawn from
VParameterValues == {I(-3), I(-1), Zero, Two, NaN}

VLambdas == {Zero, Half}

\* a call of penaltyMcpGlmnet::getValue
CallMcpGetValue ==
  /\ pc = "idle"
  /\ \E j \in 1..NPar, x \in VParameterValues, xo \in VParameterValues,
        w \in Weights, wo \in Weights, l \in VLambdas, t \in Thetas :
       LET a == [fn |-> "mcpGetValue",
                 parameterValues |-> vecAt(j, x, xo),
                 weights |-> vecAt(j, w, wo),
                 lambda |-> l, theta |-> t]
       IN  /\ args' = a
           /\ ret' = mcpGetValue(a.parameterValues, a.weights, a.lambda, a.theta)
  /\ pc' = "mcpGetValue"

\* the values the arguments of the ridge penalties are drawn from
RParameterValues == {I(-2), Zero, R(3, 2)}

RLambdas == {Half, One}

RAlphas == {Zero, Half, One}

\* a call of penaltyRidge::getValue
CallRidgeGetValue ==
  /\ pc = "idle"
  /\ \E j \in 1..NPar, x \in RParameterValues, xo \in RParameterValues,
        w \in Weights, wo \in Weights, l \in RLambdas \cup {Zero},
        al \in RAlphas :
       LET a == [fn |-> "ridgeGetValue",
                 parameterValues |-> vecAt(j, x, xo),
                 weights |-> vecAt(j, w, wo),
                 lambda |-> l, alpha |-> al]
       IN  /\ args' = a
           /\ ret' = ridgeGetValue(a.parameterValues, a.weights, a.lambda, a.alpha)
  /\ pc' = "ridgeGetValue"

\* a call of penaltyRidge::getGradients
CallRidgeGetGradients ==
  /\ pc = "idle"
  /\ \E j \in 1..NPar, x \in RParameterValues, xo \in RParameterValues,
        w \in Weights, wo \in Weights, l \in RLambdas \cup {Zero},
        al \in RAlphas :
       LET a == [fn |-> "ridgeGetGradients",
                 parameterValues |-> vecAt(j, x, xo),
                 weights |-> vecAt(j, w, wo),
                 lambda |-> l, alpha |-> al]
       IN  /\ args' = a
           /\ ret' = ridgeGetGradients(a.parameterValues, a.weights, a.lambda,
                                       a.alpha)
  /\ pc' = "ridgeGetGradients"

\* a call of penaltyRidgeGlmnet::getValue
CallRidgeGlmnetGetValue ==
  /\ pc = "idle"
  /\ \E j \in 1..NPar, x \in RParameterValues, xo \in RParameterValues,
        w \in Weights, wo \in Weights, l \in RLambdas, lo \in RLambdas,
        al \in RAlphas, alo \in RAlphas :
       LET a == [fn |-> "ridgeGlmnetGetValue",
                 parameterValues |-> vecAt(j, x, xo),
                 weights |-> vecAt(j, w, wo),
                 lambda |-> vecAt(j, l, lo), alpha |-> vecAt(j, al, alo)]
       IN  /\ args' = a
           /\ ret' = ridgeGlmnetGetValue(a.parameterValues, a.weights, a.lambda,
                                         a.alpha)
  /\ pc' = "ridgeGlmnetGetValue"

\* a call of penaltyRidgeGlmnet::getGradients
CallRidgeGlmnetGetGradients ==
  /\ pc = "idle"
  /\ \E j \in 1..NPar, x \in RParameterValues, xo \in RParameterValues,
        w \in Weights, wo \in Weights, l \in RLambdas, lo \in RLambdas,
        al \in RAlphas, alo \in RAlphas :
       LET a == [fn |-> "ridgeGlmnetGetGradients",
                 parameterValues |-> vecAt(j, x, xo),
                 weights |-> vecAt(j, w, wo),
                 lambda |-> vecAt(j, l, lo), alpha |-> vecAt(j, al, alo)]
       IN  /\ args' = a
           /\ ret' = ridgeGlmnetGetGradients(a.parameterValues, a.weights,
                                             a.lambda, a.alpha)
  /\ pc' = "ridgeGlmnetGetGradients"

\* the strings a caller passes and the longest vector of them
PenaltyStrings ==
  {"none", "cappedL1", "lasso", "lsp", "mcp", "scad",
   "ridge", "elastic_net", "capped_l1", "enet"}

MaxLen == 2

RECURSIVE StringVectors(_)
StringVectors(n) ==
  IF n = 0 THEN {<<>>}
  ELSE StringVectors(n - 1) \cup
       {Append(v, str) : v \in {u \in StringVectors(n - 1) : Len(u) = n - 1},
                         str \in PenaltyStrings}

\* a call of stringPenaltyToPenaltyType
CallStringPenalty ==
  /\ pc = "idle"
  /\ \E penalty \in StringVectors(MaxLen) :
       /\ args' = [fn |-> "stringPenaltyToPenaltyType", penalty |-> penalty]
       /\ ret' = stringPenaltyToPenaltyType(penalty)
  /\ pc' = "stringPenaltyToPenaltyType"

NextString == CallStringPenalty \/ Return

SpecString == Init /\ [][NextString]_vars

\* the largest numberParameters and the longest userVector of a call of
\* resizeVector, and the elements of the vectors
MaxResize == 3

StdElements == {"none", "lasso", "mcp"}

ArmaElements == {Zero, Half, One}

RECURSIVE VectorsOver(_, _)
VectorsOver(elements, n) ==
  IF n = 0 THEN {<<>>}
  ELSE VectorsOver(elements, n - 1) \cup
       {Append(v, x) : v \in {u \in VectorsOver(elements, n - 1) : Len(u) = n - 1},
                       x \in elements}

\* a call of resizeVector for std::vector<vecobj>
CallResizeVectorStd ==
  /\ pc = "idle"
  /\ \E n \in 0..MaxResize, v \in VectorsOver(StdElements, MaxResize) :
       /\ args' = [fn |-> "resizeVector", numberParameters |-> n, userVector |-> v]
       /\ ret' = [status |-> "returned", vector |-> resizeVectorStd(n, v)]
  /\ pc' = "resizeVectorStd"

\* a call of resizeVector for arma::rowvec
CallResizeVectorArma ==
  /\ pc = "idle"
  /\ \E n \in 0..MaxResize, v \in VectorsOver(ArmaElements, MaxResize) :
       /\ args' = [fn |-> "resizeVector", numberParameters |-> n, userVector |-> v]
       /\ ret' = [status |-> "returned", vector |-> resizeVectorArma(n, v)]
  /\ pc' = "resizeVectorArma"

NextResize == CallResizeVectorStd \/ CallResizeVectorArma \/ Return

SpecResize == Init /\ [][NextResize]_vars

\* the update of the inner iteration for the coordinate whichPar:
\* d_j <- d_j + z, every other entry of the step direction unchanged
innerUpdate(stepDirection, whichPar, z) ==
  [k \in 1..Len(stepDirection) |->
     IF k = whichPar THEN Add(stepDirection[k], z) ELSE stepDirection[k]]

\* the inner iteration applies the z that getZ returned to the step direction
\* and calls getZ again for the same coordinate, everything else unchanged;
\* the second call is followed for the calls that returned a finite z
\* computed with the H_jj passed in
CallGetZAgain ==
  /\ pc = "getZ"
  /\ ret.status = "returned"
  /\ IsFinite(ret.z)
  /\ ~ret.warned
  /\ LET a == [fn |-> "getZ", whichPar |-> args.whichPar,
               parameters_kMinus1 |-> args.parameters_kMinus1,
               gradient |-> args.gradient,
               stepDirection |-> innerUpdate(args.stepDirection, args.whichPar, ret.z),
               Hessian |-> args.Hessian,
               weights |-> args.weights,
               lambda |-> args.lambda, theta |-> args.theta,
               z |-> ret.z]
     IN  /\ args' = a
         /\ ret' = getZ(a.whichPar, a.parameters_kMinus1, a.gradient,
                        a.stepDirection, a.Hessian, a.weights, a.lambda,
                        a.theta)
  /\ pc' = "getZAgain"

\* getZ within the inner iteration
NextInner == CallGetZ \/ CallGetZAgain \/ Return

SpecInner == Init /\ [][NextInner]_vars

NextZ == CallGetZ \/ Return

SpecZ == Init /\ [][NextZ]_vars

\* the calls of getValue and getGradients of the three penalties
NextPenalty ==
  \/ CallMcpGetValue
  \/ CallRidgeGetValue
  \/ CallRidgeGetGradients
  \/ CallRidgeGlmnetGetValue
  \/ CallRidgeGlmnetGetGradients
  \/ Return

SpecPenalty == Init /\ [][NextPenalty]_vars

\* every call
Next ==
  \/ CallGetZ
  \/ CallGetZAgain
  \/ CallMcpGetValue
  \/ CallRidgeGetValue
  \/ CallRidgeGetGradients
  \/ CallRidgeGlmnetGetValue
  \/ CallRidgeGlmnetGetGradients
  \/ CallStringPenalty
  \/ CallResizeVectorStd
  \/ CallResizeVectorArma
  \/ Return

Spec == Init /\ [][Next]_vars

(***************************************************************************)
(* Claims about penaltyMcpGlmnet::getZ, checked under SpecZ                *)
(***************************************************************************)
\* the probes of the subproblem: the multiples of 1/ZProbeDen up to ZProbeMax,
\* taken from zero and from the returned z
ZProbeDen == 2

ZProbeMax == 10

ZOffsets == {R(k, ZProbeDen) : k \in (-(ZProbeMax * ZProbeDen))..(ZProbeMax * ZProbeDen)}

ZProbes(z) == ZOffsets \cup {Add(z, o) : o \in ZOffsets}

\* the arguments of the call for the coordinate whichPar
ArgW == args.weights[args.whichPar]

ArgX == args.parameters_kMinus1[args.whichPar]

ArgD == args.stepDirection[args.whichPar]

ArgG == args.gradient[args.whichPar]

ArgH == args.Hessian[args.whichPar][args.whichPar]

ArgHd == rowTimesVec(args.Hessian[args.whichPar], args.stepDirection, NPar)

ArgLambda == Mul(args.lambda, ArgW)

\* a call of getZ on a penalized coordinate with finite arguments,
\* lambda >= 0 and theta > 1
PenalizedCall ==
  /\ pc = "getZ"
  /\ ArgW # Zero
  /\ IsFinite(ArgX) /\ IsFinite(ArgD) /\ IsFinite(ArgG) /\ IsFinite(ArgH)
  /\ Ge(ArgLambda, Zero)
  /\ Gt(args.theta, One)

\* H_jj - 1/theta > 0 for the H_jj passed in
StrictlyConvex == Gt(Sub(ArgH, Div(One, args.theta)), Zero)

\* a finite z is returned and no z of probes has a smaller value of the
\* subproblem with h as H_jj
ReturnsMinimizer(h, probes) ==
  /\ ret.status = "returned"
  /\ IsFinite(ret.z)
  /\ LET x == ArgX
         g == ArgG
         d == ArgD
         hd == ArgHd
         l == ArgLambda
         t == args.theta
         best == subproblemValue(x, ret.z, g, d, hd, h, l, t)
     IN  \A z \in probes : Le(best, subproblemValue(x, z, g, d, hd, h, l, t))

\* C1: on a penalized coordinate with lambda >= 0, theta > 1 and
\* H_jj - 1/theta > 0, the z that getZ returns minimizes the coordinate
\* subproblem: its value at the returned z is <= its value at every other z.
C1_GlobalMinimizer ==
  (PenalizedCall /\ StrictlyConvex) => ReturnsMinimizer(ArgH, ZProbes(ret.z))

\* the flat-region candidate z[2] is returned and it is not one of the others
C1_Witness ==
  /\ PenalizedCall /\ StrictlyConvex
  /\ ret.status = "returned"
  /\ ret.whichmin = 2
  /\ ret.cand[3] # ret.cand[1] /\ ret.cand[3] # ret.cand[2]
  /\ Gt(ArgLambda, Zero)

\* H_jj + 1/theta + 0.001 for the H_jj passed in
InflatedH == Add(Add(ArgH, Div(One, args.theta)), R(1, 1000))

\* C3: a call on a penalized coordinate with H_jj - 1/theta <= 0 warns,
\* inflates H_jj by 1/theta + 0.001, raises no error and returns a finite z
\* that minimizes the coordinate subproblem taken with the inflated H_jj.
C3_FallbackMinimizer ==
  (PenalizedCall /\ ~StrictlyConvex) =>
    /\ ret.warned
    /\ ret.H_jj = InflatedH
    /\ ReturnsMinimizer(InflatedH, ZOffsets)

\* C4 as stated: every call of getZ, for every coordinate, in which H_jj is
\* non-positive warns and inflates H_jj before z is computed.
C4_AnyCoordinate ==
  (pc = "getZ" /\ Le(ArgH, Zero)) => (ret.warned /\ ret.H_jj = InflatedH)

\* C4 as amended: every call of getZ on a penalized coordinate (w_j # 0,
\* theta > 0) in which H_jj is non-positive warns and inflates H_jj by
\* 1/theta + 0.001 before the candidates are computed.
C4_PenalizedCoordinate ==
  (pc = "getZ" /\ ArgW # Zero /\ Gt(args.theta, Zero) /\ Le(ArgH, Zero)) =>
    (ret.warned /\ ret.H_jj = InflatedH)

\* a penalized call with H_jj = 0 that warned
C4_Witness ==
  /\ pc = "getZ" /\ ArgW # Zero /\ ArgH = Zero
  /\ ret.warned /\ ret.H_jj = InflatedH

\* the candidates z[0], z[1], z[2] of the call that are finite
FiniteCandidates == {ret.cand[i] : i \in {k \in 1..3 : IsFinite(ret.cand[k])}}

\* C5: on a penalized coordinate getZ fails with "Found no minimum" exactly
\* when none of z[0], z[1], z[2] is finite, and otherwise returns one of the
\* finite candidates, so that a returned z is never infinite or NaN.
C5_NoMinimumIffNoFinite ==
  (pc = "getZ" /\ ArgW # Zero) =>
    /\ ret.status \in {"returned", "Found no minimum"}
    /\ (ret.status = "Found no minimum") <=> (FiniteCandidates = {})
    /\ ret.status = "returned" =>
         (ret.z \in FiniteCandidates /\ IsFinite(ret.z))

\* a call that failed with "Found no minimum"
C5_Witness ==
  /\ pc = "getZ" /\ ArgW # Zero
  /\ ret.status = "Found no minimum"
  /\ FiniteCandidates = {}

(***************************************************************************)
(* Claims about getValue and getGradients, checked under SpecPenalty       *)
(***************************************************************************)
\* the sum of the entries of a sequence of numbers, last entry first
RECURSIVE SumFrom(_, _)
SumFrom(terms, k) ==
  IF k > Len(terms) THEN Zero ELSE Add(terms[k], SumFrom(terms, k + 1))

SumOf(terms) == SumFrom(terms, 1)

AllFinite(vec) == \A k \in 1..Len(vec) : IsFinite(vec[k])

DropAt(vec, j) == [k \in 1..(Len(vec) - 1) |-> IF k < j THEN vec[k] ELSE vec[k + 1]]

SetAt(vec, j, v) == [vec EXCEPT ![j] = v]

AllZero(vec) == \A k \in 1..Len(vec) : vec[k] = Zero

\* the mcp value of one coordinate: lambda_j*a - a^2/(2*theta) if
\* a <= theta*lambda_j, and theta*lambda_j^2/2 otherwise
McpFormula(lambda_j, a, theta) ==
  IF Le(a, Mul(theta, lambda_j))
  THEN Sub(Mul(lambda_j, a), Div(Mul(a, a), Mul(Two, theta)))
  ELSE Div(Mul(theta, Mul(lambda_j, lambda_j)), Two)

\* C2: for every finite parameter vector getValue of mcp returns the sum over
\* the coordinates of the mcp value with lambda_j = lambda*w_j and a = |x_j|,
\* and "Error while evaluating mcp" is not raised.
C2_McpValue ==
  (pc = "mcpGetValue" /\ AllFinite(args.parameterValues)) =>
    /\ ret.status = "returned"
    /\ ret.value =
         SumOf([j \in 1..NPar |->
                  McpFormula(Mul(args.lambda, args.weights[j]),
                             Abs(args.parameterValues[j]), args.theta)])

\* theta * lambda_j of coordinate j of a call of getValue of mcp
McpThreshold(j) == Mul(args.theta, Mul(args.lambda, args.weights[j]))

\* one coordinate lies strictly inside its threshold and is not zero, another
\* one beyond a positive threshold
C2_Witness ==
  /\ pc = "mcpGetValue" /\ AllFinite(args.parameterValues)
  /\ ret.status = "returned"
  /\ \E j \in 1..NPar :
       /\ Gt(Abs(args.parameterValues[j]), Zero)
       /\ Lt(Abs(args.parameterValues[j]), McpThreshold(j))
  /\ \E j \in 1..NPar :
       /\ Gt(McpThreshold(j), Zero)
       /\ Gt(Abs(args.parameterValues[j]), McpThreshold(j))

\* the values a coordinate is moved to: the multiples of 1/VProbeDen up to VProbeMax
VProbeDen == 2

VProbeMax == 5

VGrid == {R(k, VProbeDen) : k \in (-(VProbeMax * VProbeDen))..(VProbeMax * VProbeDen)}

\* the value getValue of mcp returns with coordinate j of the call moved to v
McpValueAt(j, v) ==
  mcpGetValue(SetAt(args.parameterValues, j, v), args.weights, args.lambda,
              args.theta).value

\* a call of getValue of mcp with finite x, lambda >= 0, theta > 1, w >= 0
McpValueCall ==
  /\ pc = "mcpGetValue"
  /\ AllFinite(args.parameterValues)
  /\ Ge(args.lambda, Zero)
  /\ Gt(args.theta, One)
  /\ \A k \in 1..NPar : Ge(args.weights[k], Zero)

\* C10: the value of mcp is weakly increasing in |x_j| for every coordinate j
\* with the others fixed, it is equal for any two |x_j| beyond theta*lambda_j,
\* and the value at |x_j| = theta*lambda_j is the value beyond it.
C10_McpMonotone ==
  McpValueCall =>
    \A j \in 1..NPar :
      LET a == Abs(args.parameterValues[j])
          t == McpThreshold(j)
      IN  /\ \A v \in VGrid :
                LET Pv == McpValueAt(j, v)
                IN  /\ Le(a, Abs(v)) => Le(ret.value, Pv)
                    /\ (Gt(a, t) /\ Gt(Abs(v), t)) => ret.value = Pv
          /\ McpValueAt(j, t) = McpValueAt(j, Add(t, One))

\* a coordinate strictly inside a positive threshold, whose value grows
\* strictly when it is moved outwards
C10_Witness ==
  /\ McpValueCall
  /\ \E j \in 1..NPar :
       /\ Gt(Abs(args.parameterValues[j]), Zero)
       /\ Lt(Abs(args.parameterValues[j]), McpThreshold(j))
       /\ \E v \in VGrid :
            /\ Le(Abs(args.parameterValues[j]), Abs(v))
            /\ Lt(ret.value, McpValueAt(j, v))

\* the result of the function of the call with coordinate j removed from
\* every vector argument
WithoutCoordinate(j) ==
  LET x == DropAt(args.parameterValues, j)
      w == DropAt(args.weights, j)
  IN  CASE pc = "mcpGetValue" -> mcpGetValue(x, w, args.lambda, args.theta)
        [] pc = "ridgeGetValue" -> ridgeGetValue(x, w, args.lambda, args.alpha)
        [] pc = "ridgeGlmnetGetValue" ->
             ridgeGlmnetGetValue(x, w, DropAt(args.lambda, j),
                                 DropAt(args.alpha, j))

ValueCalls == {"mcpGetValue", "ridgeGetValue", "ridgeGlmnetGetValue"}

GradientCalls == {"ridgeGetGradients", "ridgeGlmnetGetGradients"}

\* C6: for penaltyRidge, penaltyRidgeGlmnet and penaltyMcpGlmnet a coordinate
\* with w_j = 0 contributes exactly 0 to getValue (the value is the one of the
\* call without that coordinate) and has gradient entry 0 in getGradients;
\* with all weights 0 getValue is 0 and getGradients the zero vector.
C6_ZeroWeight ==
  /\ pc \in ValueCalls =>
       /\ \A j \in 1..NPar :
            args.weights[j] = Zero => ret = WithoutCoordinate(j)
       /\ AllZero(args.weights) => (ret.status = "returned" /\ ret.value = Zero)
  /\ pc \in GradientCalls =>
       /\ \A j \in 1..NPar : args.weights[j] = Zero => ret.gradients[j] = Zero
       /\ AllZero(args.weights) => AllZero(ret.gradients)

\* a gradient call with a zero weight on a coordinate whose parameter is not
\* zero, next to a coordinate with a gradient that is not zero
C6_Witness ==
  /\ pc \in GradientCalls
  /\ \E j \in 1..NPar :
       /\ args.weights[j] = Zero
       /\ args.parameterValues[j] # Zero
       /\ ret.gradients[j] = Zero
  /\ \E j \in 1..NPar : ret.gradients[j] # Zero

\* a call of a function of penaltyRidge with lambda >= 0, alpha in [0,1], w >= 0
RidgeCall ==
  /\ pc \in {"ridgeGetValue", "ridgeGetGradients"}
  /\ Ge(args.lambda, Zero)
  /\ Ge(args.alpha, Zero) /\ Le(args.alpha, One)
  /\ \A k \in 1..NPar : Ge(args.weights[k], Zero)

\* the sum over j of (1-alpha)*lambda*w_j*x_j^2
RidgeFormula(x, w, lambda, alpha) ==
  SumOf([j \in 1..Len(x) |->
           Mul(Sub(One, alpha), Mul(lambda, Mul(w[j], Mul(x[j], x[j]))))])

\* the central difference (V(x + e_j) - V(x - e_j)) / 2 of getValue of
\* penaltyRidge, which is the derivative of a quadratic
RidgeDifference(j) ==
  LET up == SetAt(args.parameterValues, j, Add(args.parameterValues[j], One))
      dn == SetAt(args.parameterValues, j, Sub(args.parameterValues[j], One))
  IN  Div(Sub(ridgeGetValue(up, args.weights, args.lambda, args.alpha).value,
              ridgeGetValue(dn, args.weights, args.lambda, args.alpha).value),
          Two)

\* C7: getValue of penaltyRidge is the sum over j of (1-alpha)*lambda*w_j*x_j^2
\* and entry j of getGradients is 2*(1-alpha)*lambda*w_j*x_j, the derivative
\* of getValue with respect to x_j; with alpha = 1 both are 0.
C7_IstaRidge ==
  /\ (RidgeCall /\ pc = "ridgeGetValue") =>
       /\ ret.value = RidgeFormula(args.parameterValues, args.weights,
                                   args.lambda, args.alpha)
       /\ args.alpha = One => ret.value = Zero
  /\ (RidgeCall /\ pc = "ridgeGetGradients") =>
       /\ \A j \in 1..NPar :
            /\ ret.gradients[j] =
                 Mul(Two, Mul(Sub(One, args.alpha),
                              Mul(args.lambda,
                                  Mul(args.weights[j], args.parameterValues[j]))))
            /\ ret.gradients[j] = RidgeDifference(j)
       /\ args.alpha = One => AllZero(ret.gradients)

\* a gradient of penaltyRidge with an entry that is not zero
C7_Witness ==
  /\ RidgeCall /\ pc = "ridgeGetGradients"
  /\ args.alpha = Half
  /\ \E j \in 1..NPar : ret.gradients[j] # Zero /\ ret.gradients[j] = RidgeDifference(j)

\* a call of a function of penaltyRidgeGlmnet with lambda_j >= 0,
\* alpha_j in [0,1], w_j >= 0
RidgeGlmnetCall ==
  /\ pc \in {"ridgeGlmnetGetValue", "ridgeGlmnetGetGradients"}
  /\ \A k \in 1..NPar :
       /\ Ge(args.lambda[k], Zero)
       /\ Ge(args.alpha[k], Zero) /\ Le(args.alpha[k], One)
       /\ Ge(args.weights[k], Zero)

\* lambda_j and alpha_j are the same for every j
ConstantTuning ==
  \A k \in 1..NPar : args.lambda[k] = args.lambda[1] /\ args.alpha[k] = args.alpha[1]

\* C8: getValue of penaltyRidgeGlmnet is the sum over j of
\* (1-alpha_j)*lambda_j*w_j*x_j^2 and entry j of getGradients is
\* 2*(1-alpha_j)*lambda_j*w_j*x_j, also when the "ridge is not used" shortcut
\* is taken; with constant lambda_j and alpha_j the results are those of
\* penaltyRidge with the scalar lambda and alpha.
C8_GlmnetRidge ==
  /\ (RidgeGlmnetCall /\ pc = "ridgeGlmnetGetValue") =>
       /\ ret.value =
            SumOf([j \in 1..NPar |->
                     Mul(Sub(One, args.alpha[j]),
                         Mul(args.lambda[j],
                             Mul(args.weights[j],
                                 Mul(args.parameterValues[j],
                                     args.parameterValues[j]))))])
       /\ ConstantTuning =>
            ret = ridgeGetValue(args.parameterValues, args.weights,
                                args.lambda[1], args.alpha[1])
  /\ (RidgeGlmnetCall /\ pc = "ridgeGlmnetGetGradients") =>
       /\ \A j \in 1..NPar :
            ret.gradients[j] =
              Mul(Two, Mul(Sub(One, args.alpha[j]),
                           Mul(args.lambda[j],
                               Mul(args.weights[j], args.parameterValues[j]))))
       /\ ConstantTuning =>
            ret = ridgeGetGradients(args.parameterValues, args.weights,
                                    args.lambda[1], args.alpha[1])

\* the shortcut is taken on parameters and weights that are not zero
C8_Witness ==
  /\ RidgeGlmnetCall /\ pc = "ridgeGlmnetGetValue"
  /\ \A k \in 1..NPar : args.alpha[k] = One
  /\ \E k \in 1..NPar : args.parameterValues[k] # Zero /\ args.weights[k] # Zero
  /\ ret.value = Zero

(***************************************************************************)
(* Claims about stringPenaltyToPenaltyType, checked under SpecString       *)
(***************************************************************************)
\* the kinds of the specification and the penaltyType each one names
SpecKinds ==
  {"none", "lasso", "ridge", "elastic_net", "capped_l1", "lsp", "mcp", "scad"}

\* the strings the function accepts, as its error message lists them
SupportedKinds == {"none", "cappedL1", "lasso", "lsp", "mcp", "scad"}

\* the penalty kind a string names
KindNamed(str) ==
  CASE str = "none" -> "penaltyType::none"
    [] str = "lasso" -> "penaltyType::lasso"
    [] str = "ridge" -> "penaltyType::ridge"
    [] str = "elastic_net" -> "penaltyType::elastic_net"
    [] str \in {"capped_l1", "cappedL1"} -> "penaltyType::cappedL1"
    [] str = "lsp" -> "penaltyType::lsp"
    [] str = "mcp" -> "penaltyType::mcp"
    [] str = "scad" -> "penaltyType::scad"

\* the call translated every string, in order, when all are among valid, and
\* failed without a result exactly when one is not
TranslatesExactly(valid) ==
  pc = "stringPenaltyToPenaltyType" =>
    LET bad == {i \in 1..Len(args.penalty) : args.penalty[i] \notin valid}
    IN  /\ ret.status \in {"returned", "Unknown penalty type"}
        /\ (ret.status = "Unknown penalty type") <=> (bad # {})
        /\ ret.status = "Unknown penalty type" =>
             /\ "penalties" \notin DOMAIN ret
             /\ \E i \in bad : ret.unknown = args.penalty[i] /\ \A k \in bad : i <= k
        /\ ret.status = "returned" =>
             /\ Len(ret.penalties) = Len(args.penalty)
             /\ \A i \in 1..Len(args.penalty) :
                  ret.penalties[i] = KindNamed(args.penalty[i])

\* C9 as stated: every string naming a kind in {none, lasso, ridge,
\* elastic_net, capped_l1, lsp, mcp, scad} is translated to that kind, the
\* result has the length and order of the input, and the call fails with the
\* unknown-penalty error, without a result, iff some element is not such a kind.
C9_SpecKinds == TranslatesExactly(SpecKinds)

\* C9 as amended: the same with the valid kinds {none, cappedL1, lasso, lsp,
\* mcp, scad}; "ridge", "elastic_net" and "capped_l1" raise the error.
C9_SupportedKinds == TranslatesExactly(SupportedKinds)

\* two different valid strings are translated in order
C9_Witness ==
  /\ pc = "stringPenaltyToPenaltyType"
  /\ args.penalty = <<"mcp", "cappedL1">>
  /\ ret.status = "returned"
  /\ ret.penalties = <<"penaltyType::mcp", "penaltyType::cappedL1">>

(***************************************************************************)
(* Claims about resizeVector, checked under SpecResize                     *)
(***************************************************************************)
ResizeCalls == {"resizeVectorStd", "resizeVectorArma"}

\* C11: both overloads of resizeVector return a vector of length
\* numberParameters; if userVector has length 1 every element of the result
\* is that single element, otherwise the vector is returned unchanged.
C11_ResizeVector ==
  pc \in ResizeCalls =>
    /\ ret.status = "returned"
    /\ Len(ret.vector) = args.numberParameters
    /\ Len(args.userVector) = 1 =>
         \A k \in 1..Len(ret.vector) : ret.vector[k] = args.userVector[1]
    /\ Len(args.userVector) # 1 => ret.vector = args.userVector

(***************************************************************************)
(* Claims about getZ on an unpenalized coordinate, checked under SpecZ     *)
(***************************************************************************)
\* (H d)_j, row whichPar of the Hessian times the step direction, term by term
HessianRowTimesDirection ==
  SumOf([k \in 1..NPar |->
           Mul(args.Hessian[args.whichPar][k], args.stepDirection[k])])

\* the unpenalized quadratic g_j*z + (H d)_j*z + 1/2*H_jj*z^2
UnpenalizedQuadratic(g_j, hessianXdirection_j, H_jj, z) ==
  Add(Add(Mul(g_j, z), Mul(hessianXdirection_j, z)),
      Mul(Half, Mul(H_jj, Mul(z, z))))

\* a call of getZ on a coordinate with w_j = 0 and H_jj > 0
UnpenalizedCall ==
  /\ pc = "getZ"
  /\ ArgW = Zero
  /\ Gt(ArgH, Zero)
  /\ IsFinite(ArgG) /\ IsFinite(HessianRowTimesDirection)

\* the z of the same call with lambda l, theta t and x_j = x instead
ZWith(l, t, x) ==
  getZ(args.whichPar, SetAt(args.parameters_kMinus1, args.whichPar, x),
       args.gradient, args.stepDirection, args.Hessian, args.weights, l, t).z

\* C12: for a coordinate with w_j = 0 and H_jj > 0 getZ returns
\* z = -(g_j + (H d)_j)/H_jj without warning or inflating H_jj; this z
\* minimizes the unpenalized quadratic g_j*z + (H d)_j*z + 1/2*H_jj*z^2 and is
\* the same for every lambda, theta and x_j.
C12_Unpenalized ==
  UnpenalizedCall =>
    /\ ret.status = "returned"
    /\ ~ret.warned
    /\ ret.H_jj = ArgH
    /\ ret.z = Div(Neg(Add(ArgG, HessianRowTimesDirection)), ArgH)
    /\ LET g == ArgG
           hd == HessianRowTimesDirection
           h == ArgH
           best == UnpenalizedQuadratic(g, hd, h, ret.z)
       IN  \A z \in ZProbes(ret.z) : Le(best, UnpenalizedQuadratic(g, hd, h, z))
    /\ \A l \in Lambdas, t \in Thetas, x \in ZParameterValues :
         ZWith(l, t, x) = ret.z

\* an unpenalized call with lambda > 0 and a step direction that contributes
\* to (H d)_j, whose z is not 0
C12_Witness ==
  /\ UnpenalizedCall
  /\ Gt(args.lambda, Zero)
  /\ HessianRowTimesDirection # Zero
  /\ ArgX # Zero
  /\ ret.status = "returned"
  /\ ret.z # Zero
  /\ ret.z = Div(Neg(Add(ArgG, HessianRowTimesDirection)), ArgH)

(***************************************************************************)
(* Claims about getZ within the inner iteration, checked under SpecInner   *)
(***************************************************************************)
\* the second call of getZ, after d_j <- d_j + z, on a coordinate with
\* H_jj > 0 on which the fallback is not active
SecondCall ==
  /\ pc = "getZAgain"
  /\ Gt(ArgH, Zero)
  /\ ArgW = Zero \/ StrictlyConvex

\* C13: for a coordinate with H_jj > 0 on which the fallback is not active
\* (w_j = 0 or H_jj - 1/theta > 0), after getZ returned z and the inner
\* iteration updated d_j <- d_j + z with everything else unchanged, the next
\* call of getZ for the same coordinate returns 0.
C13_FixedPoint ==
  SecondCall => (ret.status = "returned" /\ ret.z = Zero)
\* a second call on a penalized coordinate with lambda > 0 that returns 0
\* from the flat region after a first call that moved the coordinate
C13_Witness ==
  /\ SecondCall
  /\ ArgW # Zero
  /\ Gt(ArgLambda, Zero)
  /\ args.z # Zero
  /\ ret.status = "returned"
  /\ ret.whichmin = 2
  /\ ret.z = Zero

====
